---- MODULE Spec2Model ----
(***************************************************************************)
(* SimpleUntar: a model of SimpleUntar::unpack (SimpleUntar.cpp) and of    *)
(* the accessors of the class.                                             *)
(*                                                                         *)
(* The archive is a sequence of 512-byte blocks.  A block is seen through  *)
(* the fields of struct GnuTarHeader that the code reads (name, size,      *)
(* typeflag, magic); the same block read as payload is seen as the C       *)
(* string that starts at its first byte, which is its name field.  Text    *)
(* (names, paths, the size field) is a sequence of one-character strings.  *)
(*                                                                         *)
(* One action is the code from one readBytes call up to the next one, so   *)
(* that every state is a point where the extractor waits for the archive.  *)
(*                                                                         *)
(* Spec is the extractor called again and again on one object; FairSpec    *)
(* adds that a call under way goes on; JoinSpec is fnParse alone, applied  *)
(* to roots and entry names that no archive of the model holds.            *)
(***************************************************************************)
EXTENDS Integers, Sequences, FiniteSets, TLC

----------------------------------------------------------------------------
(* Bounds of the model *)

\* the longest archive, in blocks
MaxBlocks == 4

\* the longest entry name and the longest destination root given to fnParse
MaxNameLen == 3
MaxRootLen == 2

----------------------------------------------------------------------------
(* Program constants *)

\* sizeof(struct GnuTarHeader), sizeof(buf): the block length
BlockSize == 512

\* enum SimpleUntar::error
ErrorOk == 0
ErrorOutputFolderCreation == 1
ErrorInputFileNotPresent == 2
ErrorUnexpectedEndOfFile == 3
ErrorUnexpectedRecordInFile == 4
ErrorWritingToDisk == 5

\* struct GnuTarHeader: the first byte after each field the code reads
EndOfSize == 136
EndOfTypeflag == 157
\* strncmp(rh.magic, "ustar", 5) reads bytes 257..261
EndOfMagic == 262

----------------------------------------------------------------------------
(* Text *)

Slash == "/"

OctalDigits == {"0", "1", "2", "3", "4", "5", "6", "7"}
DecimalDigits == OctalDigits \cup {"8", "9"}

DigitValue(c) ==
    CASE c = "0" -> 0 [] c = "1" -> 1 [] c = "2" -> 2 [] c = "3" -> 3
      [] c = "4" -> 4 [] c = "5" -> 5 [] c = "6" -> 6 [] c = "7" -> 7
      [] c = "8" -> 8 [] c = "9" -> 9

DigitsOf(base) == IF base = 8 THEN OctalDigits ELSE DecimalDigits

\* the digits of s from position i on, up to the first character that is no
\* digit of the base, accumulated most significant first
RECURSIVE Accumulate(_, _, _, _)
Accumulate(s, i, base, acc) ==
    IF i > Len(s) \/ s[i] \notin DigitsOf(base)
    THEN acc
    ELSE Accumulate(s, i + 1, base, acc * base + DigitValue(s[i]))

\* the first position of s that holds no blank
RECURSIVE SkipBlanks(_, _)
SkipBlanks(s, i) ==
    IF i <= Len(s) /\ s[i] = " " THEN SkipBlanks(s, i + 1) ELSE i

\* strtol(s, NULL, base): blanks, an optional sign, then digits of the base;
\* 0 when no digit follows
StrToL(s, base) ==
    LET i == SkipBlanks(s, 1)
        signed == i <= Len(s) /\ s[i] \in {"-", "+"}
        j == IF signed THEN i + 1 ELSE i
        v == Accumulate(s, j, base, 0)
    IN  IF signed /\ s[i] = "-" THEN 0 - v ELSE v

\* atoi(s) is (int) strtol(s, NULL, 10)
AtoI(s) == StrToL(s, 10)

\* String::endsWith
EndsWith(path, c) == Len(path) > 0 /\ path[Len(path)] = c

\* SimpleUntar::fnParse
fnParse(path1, path2) ==
    IF EndsWith(path1, Slash) THEN path1 \o path2
    ELSE path1 \o <<Slash>> \o path2

----------------------------------------------------------------------------
(* The archive *)

\* a block whose magic field holds "ustar"
Header(flag, sz, nm) ==
    [magic |-> TRUE, typeflag |-> flag, size |-> sz, name |-> nm]

\* a block of payload: no "ustar" at the magic field, text nm at its start
Payload(nm) ==
    [magic |-> FALSE, typeflag |-> "NUL", size |-> <<>>, name |-> nm]

\* a block of 512 zero bytes, which ends an archive
ZeroBlock == Payload(<<>>)

ShortName == <<"f">>
DirName == <<"d">>
LongName == <<"l", "n">>

\* a file record of 0 bytes, and one of 513 bytes (01001): two blocks of payload
FileEmpty == Header("0", <<"0">>, ShortName)
FileTwoBlocks == Header("0", <<"0", "1", "0", "0", "1">>, ShortName)
\* a directory record
Directory == Header("5", <<"0">>, DirName)
\* a long-name record of 3 bytes: one block of payload
LongNameHeader == Header("L", <<"3">>, ShortName)
\* a file record of 8 bytes (010) whose typeflag is NUL
FileOldStyle == Header("NUL", <<"1", "0">>, ShortName)
\* a record of another type, 512 bytes (01000) of payload
OtherRecord == Header("x", <<"1", "0", "0", "0">>, ShortName)
\* a record of another type whose size field holds -1: no payload is skipped
OtherNegative == Header("x", <<"-", "1">>, ShortName)

Blocks ==
    {FileEmpty, FileTwoBlocks, Directory, LongNameHeader, FileOldStyle,
     OtherRecord, OtherNegative, Payload(LongName), ZeroBlock}

\* the lengths a stream may leave for its last block: whole, cut after the
\* magic field, cut before it
TailLens == {BlockSize, 300, 200}

\* the last blocks the model cuts short
Truncated == {FileEmpty}

SeqsUpTo(S, n) == UNION {[1..k -> S] : k \in 0..n}

Archives ==
    {[blocks |-> b, tail |-> t] : b \in SeqsUpTo(Blocks, MaxBlocks), t \in TailLens}

\* a stream is cut short only at its last block
WellFormedStream(a) ==
    a.tail = BlockSize \/ (Len(a.blocks) > 0 /\ a.blocks[Len(a.blocks)] \in Truncated)

NoArchive == [blocks |-> <<>>, tail |-> BlockSize]

\* the destination roots passed to unpack
Roots == {<<"/", "r">>, <<"/", "r", "/">>}

----------------------------------------------------------------------------
(* LittleFS: File::readBytes and File::write *)

\* File::readBytes on a File that open() did not give a handle: (size_t) -1
\* in the ESP32 core, 0 in the ESP8266 core
InvalidReads == {0 - 1, 0}

\* the values File::readBytes(buf, 512) may return at the cursor of h
ReadLens(h, a) ==
    IF ~h.valid THEN InvalidReads
    ELSE IF h.pos > Len(a.blocks) THEN {0}
    ELSE IF h.pos = Len(a.blocks) THEN {a.tail}
    ELSE {BlockSize}

\* the block under the cursor
BlockAt(h, a) ==
    IF h.valid /\ h.pos <= Len(a.blocks) THEN a.blocks[h.pos] ELSE ZeroBlock

\* the handle after one readBytes
AfterRead(h, a) ==
    IF h.valid /\ h.pos <= Len(a.blocks) THEN [h EXCEPT !.pos = @ + 1] ELSE h

Prefix(s, n) == IF n >= Len(s) THEN s ELSE SubSeq(s, 1, n)

\* rh after it was zeroed and readBytes stored l bytes of block b in it
HeaderView(b, l) ==
    [name     |-> IF l > 0 THEN Prefix(b.name, l) ELSE <<>>,
     size     |-> IF l >= EndOfSize THEN b.size ELSE <<>>,
     typeflag |-> IF l >= EndOfTypeflag THEN b.typeflag ELSE "NUL",
     magic    |-> l >= EndOfMagic /\ b.magic]

\* String((char *) buf) after readBytes stored l bytes of block b in buf and
\* buf[l] was set to NUL
ChunkText(b, l) == Prefix(b.name, l)

\* what File::write(buf, n) may return: n, or less on a short write
WriteResults(n) == {n, n - 1, 0}

----------------------------------------------------------------------------
(* State *)

VARIABLES
    unpackErrorCode,  \* SimpleUntar::unpackErrorCode
    numfiles,         \* SimpleUntar::numfiles
    pc,               \* where unpack stands: "idle" before a call, "header",
                      \* "longname", "payload", "skip" at the four readBytes
                      \* calls, "close" after the loop, "done" on return
    ret,              \* the value unpack returned, -1 before it returns
    destination,      \* the argument destination
    fsys,             \* LittleFS.exists(tarfile); LittleFS.exists(destination)
                      \* after mkdir
    tar,              \* the content of tarfile
    th,               \* File th: valid (open() gave a handle), open, and pos,
                      \* the index of the next block
    ofOpen,           \* File of is open
    eof,              \* bool eof
    firstrecord,      \* bool firstrecord
    filename,         \* String filename
    size,             \* long int size of the case being executed
    trace,            \* what the call did, in order: the mkdir of the root,
                      \* then one entry for each record it dispatched
    reads,            \* the number of readBytes calls of this call
    lastheader,       \* the header reads of this call: how many, what the last
                      \* one returned, and whether one returned a short block
    failedAt,         \* the value of reads when a write returned less than
                      \* asked, -1 while none did
    call              \* the call under way: stale, whether it began with the
                      \* error code of an earlier call in unpackErrorCode, and
                      \* opened, whether it called LittleFS.open(tarfile, "r")

vars ==
    <<unpackErrorCode, numfiles, pc, ret, destination, fsys, tar, th, ofOpen,
      eof, firstrecord, filename, size, trace, reads, lastheader, failedAt,
      call>>

NoReturn == 0 - 1
NoFailure == 0 - 1

ClosedHandle == [valid |-> FALSE, open |-> FALSE, pos |-> 1]
NoHeader == [count |-> 0, len |-> BlockSize, magic |-> TRUE, short |-> FALSE]
NoCall == [stale |-> FALSE, opened |-> FALSE]

\* SimpleUntar::SimpleUntar, and the locals of unpack before a call
Init ==
    /\ unpackErrorCode = ErrorOk
    /\ numfiles = 0
    /\ pc = "idle"
    /\ ret = NoReturn
    /\ destination = <<>>
    /\ fsys = [tarfile |-> FALSE, dest |-> FALSE]
    /\ tar = NoArchive
    /\ th = ClosedHandle
    /\ ofOpen = FALSE
    /\ eof = FALSE
    /\ firstrecord = TRUE
    /\ filename = <<>>
    /\ size = 0
    /\ trace = <<>>
    /\ reads = 0
    /\ lastheader = NoHeader
    /\ failedAt = NoFailure
    /\ call = NoCall

\* an entry of trace: op is "mkdir" (LittleFS.mkdir(path)), "open"
\* (LittleFS.open(path, "w")), "name" (a long-name record, path the name read
\* so far) or "skip" (a record of another type); hdr is the index of the
\* record's header block (0: the destination root); bytes is what File::write
\* took; chunks counts the readBytes calls for the payload; next is the
\* cursor when the record was done, 0 before
Entry(op, path, hdr) ==
    [op |-> op, path |-> path, hdr |-> hdr, bytes |-> 0, chunks |-> 0, next |-> 0]

\* the last entry of log, changed
Chunked(log) == [log EXCEPT ![Len(log)].chunks = @ + 1]
Ended(log, cursor) == [log EXCEPT ![Len(log)].next = cursor]

----------------------------------------------------------------------------
(* unpack, up to the decode loop *)

\* UnpackInputFileNotPresent with the mkdir of line 92 before the test of
\* line 86
UnpackInputFileNotPresentAfterMkdir ==
    /\ pc = "idle"
    /\ \E dest \in Roots :
        /\ destination' = dest
        /\ fsys' = [tarfile |-> FALSE, dest |-> FALSE]
        /\ trace' = <<Entry("mkdir", dest, 0)>>
    /\ call' = [stale |-> unpackErrorCode # ErrorOk, opened |-> FALSE]
    /\ numfiles' = 0
    /\ unpackErrorCode' = ErrorInputFileNotPresent
    /\ ret' = ErrorInputFileNotPresent
    /\ pc' = "done"
    /\ UNCHANGED <<tar, th, ofOpen, eof, firstrecord, filename, size, reads,
                   lastheader, failedAt>>

\* lines 83-89: the archive does not exist
UnpackInputFileNotPresent ==
    /\ pc = "idle"
    /\ \E dest \in Roots :
        /\ destination' = dest
        /\ fsys' = [tarfile |-> FALSE, dest |-> FALSE]
    /\ call' = [stale |-> unpackErrorCode # ErrorOk, opened |-> FALSE]
    /\ numfiles' = 0
    /\ unpackErrorCode' = ErrorInputFileNotPresent
    /\ ret' = ErrorInputFileNotPresent
    /\ pc' = "done"
    /\ UNCHANGED <<tar, th, ofOpen, eof, firstrecord, filename, size, trace,
                   reads, lastheader, failedAt>>

\* UnpackOutputFolderCreation with the archive opened before the destination
\* is tested
UnpackOutputFolderCreationAfterOpen ==
    /\ pc = "idle"
    /\ \E dest \in Roots :
        /\ destination' = dest
        /\ fsys' = [tarfile |-> TRUE, dest |-> FALSE]
        /\ trace' = <<Entry("mkdir", dest, 0)>>
    /\ call' = [stale |-> unpackErrorCode # ErrorOk, opened |-> TRUE]
    /\ numfiles' = 0
    /\ unpackErrorCode' = ErrorOutputFolderCreation
    /\ ret' = ErrorOutputFolderCreation
    /\ pc' = "done"
    /\ UNCHANGED <<tar, th, ofOpen, eof, firstrecord, filename, size, reads,
                   lastheader, failedAt>>

\* lines 83-96: the destination does not exist after mkdir
UnpackOutputFolderCreation ==
    /\ pc = "idle"
    /\ \E dest \in Roots :
        /\ destination' = dest
        /\ fsys' = [tarfile |-> TRUE, dest |-> FALSE]
        /\ trace' = <<Entry("mkdir", dest, 0)>>
    /\ call' = [stale |-> unpackErrorCode # ErrorOk, opened |-> FALSE]
    /\ numfiles' = 0
    /\ unpackErrorCode' = ErrorOutputFolderCreation
    /\ ret' = ErrorOutputFolderCreation
    /\ pc' = "done"
    /\ UNCHANGED <<tar, th, ofOpen, eof, firstrecord, filename, size, reads,
                   lastheader, failedAt>>

\* UnpackOpen without line 83: the count of an earlier call stays
UnpackOpenKeepsCount ==
    /\ pc = "idle"
    /\ \E dest \in Roots, a \in Archives, valid \in BOOLEAN :
        /\ WellFormedStream(a)
        /\ destination' = dest
        /\ fsys' = [tarfile |-> TRUE, dest |-> TRUE]
        /\ trace' = <<Entry("mkdir", dest, 0)>>
        /\ tar' = a
        /\ th' = [valid |-> valid, open |-> valid, pos |-> 1]
    /\ call' = [stale |-> unpackErrorCode # ErrorOk, opened |-> TRUE]
    /\ eof' = FALSE
    /\ firstrecord' = TRUE
    /\ filename' = <<>>
    /\ pc' = "header"
    /\ UNCHANGED <<unpackErrorCode, numfiles, ret, ofOpen, size, reads,
                   lastheader, failedAt>>

\* lines 83-105: both checks pass and the archive is opened
UnpackOpen ==
    /\ pc = "idle"
    /\ \E dest \in Roots, a \in Archives, valid \in BOOLEAN :
        /\ WellFormedStream(a)
        /\ destination' = dest
        /\ fsys' = [tarfile |-> TRUE, dest |-> TRUE]
        /\ trace' = <<Entry("mkdir", dest, 0)>>
        /\ tar' = a
        /\ th' = [valid |-> valid, open |-> valid, pos |-> 1]
    /\ call' = [stale |-> unpackErrorCode # ErrorOk, opened |-> TRUE]
    /\ numfiles' = 0
    /\ eof' = FALSE
    /\ firstrecord' = TRUE
    /\ filename' = <<>>
    /\ pc' = "header"
    /\ UNCHANGED <<unpackErrorCode, ret, ofOpen, size, reads, lastheader,
                   failedAt>>

----------------------------------------------------------------------------
(* The decode loop: one header *)

\* line 114: the test of the header read
ReadFailed(l) == l < 0

\* MagicMismatchCode without line 131: the code of an earlier call stays
MagicMismatchCodeStale(first) ==
    IF first THEN ErrorUnexpectedRecordInFile ELSE unpackErrorCode

\* MagicMismatchCode without the test of firstrecord
MagicMismatchCodeAlways(first) == ErrorUnexpectedRecordInFile

\* lines 128-132: the error code of a block without the magic
MagicMismatchCode(first) ==
    IF first THEN ErrorUnexpectedRecordInFile ELSE ErrorOk

\* line 139: the case of the switch a typeflag selects
Dispatch(flag) ==
    CASE flag = "L" -> "longname"
      [] flag = "5" -> "directory"
      [] flag = "0" -> "file"
      [] OTHER -> "other"

\* lines 162-165 and 180-183: the long name if one is pending, else rh.name
EffectiveName(pending, rh) ==
    IF Len(pending) = 0 THEN rh.name ELSE pending

\* CopyGoesOn without the test of eof
CopyGoesOnRegardless(stop, sz) == sz > 0

\* line 188: the test of the loop that copies a file
CopyGoesOn(stop, sz) == ~stop /\ sz > 0

\* line 190
WriteSize(sz) == IF sz < BlockSize THEN sz ELSE BlockSize

\* every readBytes call moves the cursor
ReadsBlock ==
    /\ reads' = reads + 1
    /\ th' = AfterRead(th, tar)

\* lines 109-112: readBytes for a header returned l
ReadsHeader(l) ==
    /\ ReadsBlock
    /\ lastheader' =
           [count |-> lastheader.count + 1,
            len   |-> l,
            magic |-> HeaderView(BlockAt(th, tar), l).magic,
            short |-> lastheader.short \/ l < BlockSize]

\* lines 109-118: the read of the header fails
HeaderReadError ==
    /\ pc = "header"
    /\ \E l \in ReadLens(th, tar) :
        /\ ReadFailed(l)
        /\ ReadsHeader(l)
    /\ unpackErrorCode' = ErrorUnexpectedEndOfFile
    /\ eof' = TRUE
    /\ pc' = "close"
    /\ UNCHANGED <<numfiles, ret, destination, fsys, tar, call, ofOpen, firstrecord,
                   filename, size, trace, failedAt>>

\* lines 109-133: the block read as a header does not carry the magic
HeaderWithoutMagic ==
    /\ pc = "header"
    /\ \E l \in ReadLens(th, tar) :
        /\ ~ReadFailed(l)
        /\ ~HeaderView(BlockAt(th, tar), l).magic
        /\ ReadsHeader(l)
    /\ unpackErrorCode' = MagicMismatchCode(firstrecord)
    /\ eof' = TRUE
    /\ pc' = "close"
    /\ UNCHANGED <<numfiles, ret, destination, fsys, tar, call, ofOpen, firstrecord,
                   filename, size, trace, failedAt>>

\* lines 142-156 with line 219, up to the first read of the name
LongNameRecord ==
    /\ pc = "header"
    /\ \E l \in ReadLens(th, tar) :
        LET rh == HeaderView(BlockAt(th, tar), l)
            log == Append(trace, Entry("name", <<>>, th.pos))
        IN
        /\ ~ReadFailed(l)
        /\ rh.magic
        /\ Dispatch(rh.typeflag) = "longname"
        /\ ReadsHeader(l)
        /\ size' = StrToL(rh.size, 8)
        /\ filename' = <<>>
        /\ IF size' > 0
           THEN pc' = "longname" /\ trace' = log /\ UNCHANGED firstrecord
           ELSE pc' = "header" /\ trace' = Ended(log, th'.pos) /\ firstrecord' = FALSE
    /\ UNCHANGED <<unpackErrorCode, numfiles, ret, destination, fsys, tar, call,
                   ofOpen, eof, failedAt>>

\* lines 159-170 with line 219
DirectoryRecord ==
    /\ pc = "header"
    /\ \E l \in ReadLens(th, tar) :
        LET rh == HeaderView(BlockAt(th, tar), l)
            path == fnParse(destination, EffectiveName(filename, rh))
        IN
        /\ ~ReadFailed(l)
        /\ rh.magic
        /\ Dispatch(rh.typeflag) = "directory"
        /\ ReadsHeader(l)
        /\ trace' = Ended(Append(trace, Entry("mkdir", path, th.pos)), th'.pos)
    /\ filename' = <<>>
    /\ firstrecord' = FALSE
    /\ pc' = "header"
    /\ UNCHANGED <<unpackErrorCode, numfiles, ret, destination, fsys, tar, call,
                   ofOpen, eof, size, failedAt>>

\* FileClosed without line 201: the name stays pending
FileClosedKeepsName(log) ==
    /\ trace' = Ended(log, th'.pos)
    /\ ofOpen' = FALSE
    /\ numfiles' = numfiles + 1
    /\ firstrecord' = FALSE
    /\ UNCHANGED filename

\* lines 197-201 with line 219: the output file is closed and counted
FileClosed(log) ==
    /\ trace' = Ended(log, th'.pos)
    /\ ofOpen' = FALSE
    /\ numfiles' = numfiles + 1
    /\ filename' = <<>>
    /\ firstrecord' = FALSE

\* lines 173-203 with line 219, up to the first read of the payload
FileRecord ==
    /\ pc = "header"
    /\ \E l \in ReadLens(th, tar) :
        LET rh == HeaderView(BlockAt(th, tar), l)
            name == EffectiveName(filename, rh)
            log == Append(trace, Entry("open", fnParse(destination, name), th.pos))
        IN
        /\ ~ReadFailed(l)
        /\ rh.magic
        /\ Dispatch(rh.typeflag) = "file"
        /\ ReadsHeader(l)
        /\ size' = StrToL(rh.size, 8)
        /\ IF CopyGoesOn(eof, size')
           THEN /\ pc' = "payload"
                /\ trace' = log
                /\ ofOpen' = TRUE
                /\ filename' = name
                /\ UNCHANGED <<numfiles, firstrecord>>
           ELSE /\ pc' = "header"
                /\ FileClosed(log)
    /\ UNCHANGED <<unpackErrorCode, ret, destination, fsys, tar, call, eof, failedAt>>

\* OtherTypeRecord without line 214: the name stays pending
OtherTypeRecordKeepsName ==
    /\ pc = "header"
    /\ \E l \in ReadLens(th, tar) :
        LET rh == HeaderView(BlockAt(th, tar), l)
            log == Append(trace, Entry("skip", <<>>, th.pos))
        IN
        /\ ~ReadFailed(l)
        /\ rh.magic
        /\ Dispatch(rh.typeflag) = "other"
        /\ ReadsHeader(l)
        /\ size' = AtoI(rh.size)
        /\ IF size' > 0
           THEN pc' = "skip" /\ trace' = log /\ UNCHANGED firstrecord
           ELSE pc' = "header" /\ trace' = Ended(log, th'.pos) /\ firstrecord' = FALSE
    /\ UNCHANGED <<unpackErrorCode, numfiles, ret, destination, fsys, tar, call,
                   ofOpen, eof, failedAt, filename>>

\* lines 206-216 with line 219, up to the first read of the payload
OtherTypeRecord ==
    /\ pc = "header"
    /\ \E l \in ReadLens(th, tar) :
        LET rh == HeaderView(BlockAt(th, tar), l)
            log == Append(trace, Entry("skip", <<>>, th.pos))
        IN
        /\ ~ReadFailed(l)
        /\ rh.magic
        /\ Dispatch(rh.typeflag) = "other"
        /\ ReadsHeader(l)
        /\ size' = AtoI(rh.size)
        /\ IF size' > 0
           THEN /\ pc' = "skip"
                /\ trace' = log
                /\ UNCHANGED <<filename, firstrecord>>
           ELSE /\ pc' = "header"
                /\ trace' = Ended(log, th'.pos)
                /\ filename' = <<>>
                /\ firstrecord' = FALSE
    /\ UNCHANGED <<unpackErrorCode, numfiles, ret, destination, fsys, tar, call,
                   ofOpen, eof, failedAt>>

----------------------------------------------------------------------------
(* The decode loop: one block of payload *)

\* lines 149-154 with line 219: one chunk of the long name.  On a File without
\* a handle no header carries the magic, so that l is never negative here.
LongNameChunk ==
    /\ pc = "longname"
    /\ ReadsBlock
    /\ size' = size - BlockSize
    /\ \E l \in ReadLens(th, tar) :
        LET name == filename \o ChunkText(BlockAt(th, tar), l)
            log == Chunked([trace EXCEPT ![Len(trace)].path = name])
        IN
        /\ l >= 0
        /\ filename' = name
        /\ IF size' > 0
           THEN pc' = "longname" /\ trace' = log /\ UNCHANGED firstrecord
           ELSE pc' = "header" /\ trace' = Ended(log, th'.pos) /\ firstrecord' = FALSE
    /\ UNCHANGED <<unpackErrorCode, numfiles, ret, destination, fsys, tar, call,
                   ofOpen, eof, lastheader, failedAt>>

\* lines 188-201 with line 219: one chunk of a file
FileChunk ==
    /\ pc = "payload"
    /\ ReadsBlock
    /\ size' = size - BlockSize
    /\ \E w \in WriteResults(WriteSize(size)) :
        LET short == w # WriteSize(size)
            log == Chunked([trace EXCEPT ![Len(trace)].bytes = @ + w])
        IN
        /\ eof' = (eof \/ short)
        /\ failedAt' = IF short THEN reads' ELSE failedAt
        /\ unpackErrorCode' = IF short THEN ErrorWritingToDisk ELSE unpackErrorCode
        /\ IF CopyGoesOn(eof', size')
           THEN /\ pc' = "payload"
                /\ trace' = log
                /\ UNCHANGED <<ofOpen, numfiles, filename, firstrecord>>
           ELSE /\ pc' = IF eof' THEN "close" ELSE "header"
                /\ FileClosed(log)
    /\ UNCHANGED <<ret, destination, fsys, tar, call, lastheader>>

\* SkipChunk without line 212: the payload left to skip never shrinks
SkipChunkForever ==
    /\ pc = "skip"
    /\ ReadsBlock
    /\ pc' = "skip"
    /\ trace' = Chunked(trace)
    /\ UNCHANGED <<unpackErrorCode, numfiles, ret, destination, fsys, tar, call,
                   ofOpen, eof, firstrecord, filename, size, lastheader,
                   failedAt>>

\* lines 210-214 with line 219: one chunk of a record of another type
SkipChunk ==
    /\ pc = "skip"
    /\ ReadsBlock
    /\ size' = size - BlockSize
    /\ IF size' > 0
       THEN /\ pc' = "skip"
            /\ trace' = Chunked(trace)
            /\ UNCHANGED <<filename, firstrecord>>
       ELSE /\ pc' = "header"
            /\ trace' = Ended(Chunked(trace), th'.pos)
            /\ filename' = <<>>
            /\ firstrecord' = FALSE
    /\ UNCHANGED <<unpackErrorCode, numfiles, ret, destination, fsys, tar, call,
                   ofOpen, eof, lastheader, failedAt>>

----------------------------------------------------------------------------
(* After the loop *)

\* ReportedCount without the reset of lines 227-229
ReportedCountKept(code, n) == n

\* lines 227-229: the count unpack leaves
ReportedCount(code, n) == IF code # ErrorOk THEN 0 ELSE n

\* Finish without line 225: the archive stays open
FinishWithoutClose ==
    /\ pc = "close"
    /\ numfiles' = ReportedCount(unpackErrorCode, numfiles)
    /\ ret' = unpackErrorCode
    /\ pc' = "done"
    /\ UNCHANGED <<unpackErrorCode, destination, fsys, tar, call, th, ofOpen,
                   eof, firstrecord, filename, size, trace, reads, lastheader,
                   failedAt>>

\* lines 225-231
Finish ==
    /\ pc = "close"
    /\ th' = [th EXCEPT !.open = FALSE]
    /\ numfiles' = ReportedCount(unpackErrorCode, numfiles)
    /\ ret' = unpackErrorCode
    /\ pc' = "done"
    /\ UNCHANGED <<unpackErrorCode, destination, fsys, tar, call, ofOpen, eof,
                   firstrecord, filename, size, trace, reads, lastheader,
                   failedAt>>

\* the caller goes on: the locals of the call are gone, the object stays
Resume ==
    /\ pc = "done"
    /\ pc' = "idle"
    /\ ret' = NoReturn
    /\ destination' = <<>>
    /\ fsys' = [tarfile |-> FALSE, dest |-> FALSE]
    /\ tar' = NoArchive
    /\ th' = ClosedHandle
    /\ ofOpen' = FALSE
    /\ eof' = FALSE
    /\ firstrecord' = TRUE
    /\ filename' = <<>>
    /\ size' = 0
    /\ trace' = <<>>
    /\ reads' = 0
    /\ lastheader' = NoHeader
    /\ failedAt' = NoFailure
    /\ call' = NoCall
    /\ UNCHANGED <<unpackErrorCode, numfiles>>

\* a step of a call under way: lines 107-231
DecodeStep ==
    \/ HeaderReadError
    \/ HeaderWithoutMagic
    \/ LongNameRecord
    \/ DirectoryRecord
    \/ FileRecord
    \/ OtherTypeRecord
    \/ LongNameChunk
    \/ FileChunk
    \/ SkipChunk
    \/ Finish

Next ==
    \/ UnpackInputFileNotPresent
    \/ UnpackOutputFolderCreation
    \/ UnpackOpen
    \/ HeaderReadError
    \/ HeaderWithoutMagic
    \/ LongNameRecord
    \/ DirectoryRecord
    \/ FileRecord
    \/ OtherTypeRecord
    \/ LongNameChunk
    \/ FileChunk
    \/ SkipChunk
    \/ Finish
    \/ Resume

Spec == Init /\ [][Next]_vars

\* unpack is sequential code: a call under way takes its next step
FairSpec == Spec /\ WF_vars(DecodeStep)

\* SimpleUntar::numFiles
numFiles == numfiles

\* SimpleUntar::errorCode
errorCode == unpackErrorCode

----------------------------------------------------------------------------
(* What the claims speak of *)

Returned == pc = "done"

ErrorKinds ==
    {ErrorOutputFolderCreation, ErrorInputFileNotPresent, ErrorUnexpectedEndOfFile,
     ErrorUnexpectedRecordInFile, ErrorWritingToDisk}

\* both checks before the loop passed
Entered == fsys.tarfile /\ fsys.dest

\* the call extracted the archive: it entered the loop, dispatched a record,
\* no read failed and no write came back short
ExtractionSucceeded ==
    /\ Entered
    /\ lastheader.count > 1
    /\ lastheader.len >= 0
    /\ failedAt = NoFailure

\* the entries of trace that are done
Done(i) == i \in 1..Len(trace) /\ trace[i].next > 0

\* the header block of entry i
HeaderOf(i) == tar.blocks[trace[i].hdr]

\* the blocks that hold n bytes
BlocksFor(n) == IF n > 0 THEN (n + BlockSize - 1) \div BlockSize ELSE 0

\* the size field of a header, read as the octal number it is
DeclaredSize(h) == StrToL(h.size, 8)

\* the typeflags of a regular file: '0' and NUL
RegularFileFlags == {"0", "NUL"}

\* the typeflag the switch takes as a file
SwitchFileFlags == {"0"}

----------------------------------------------------------------------------
(* C1 *)

----------------------------------------------------------------------------
(* C2 *)

\* C2: as the documented usage if (!engine.unpack(...)) relies on: unpack
\* returns zero exactly when the extraction failed, and nonzero when it
\* succeeded, and then numFiles() is the number of files unpacked.
C2_ZeroMeansFailure ==
    Returned =>
        /\ (ret = 0 <=> ~ExtractionSucceeded)
        /\ (ret # 0 =>
               numFiles = Cardinality({i \in 1..Len(trace) : trace[i].op = "open"}))

----------------------------------------------------------------------------
(* C3 *)

\* C3: a block without the magic, read as a header, stops the loop; when it
\* is the very first block read, unpack fails with UnexpectedRecordInFile;
\* when a block with the magic was dispatched before, unpack succeeds with
\* no error.
C3_MagicByPosition ==
    (lastheader.count > 0 /\ lastheader.len >= 0 /\ ~lastheader.magic) =>
        /\ pc \in {"close", "done"}
        /\ errorCode =
               IF lastheader.count = 1 THEN ErrorUnexpectedRecordInFile ELSE ErrorOk
        /\ (Returned => ret = errorCode)

\* a whole block without the magic ended a call that had dispatched a record
C3_Witness ==
    /\ Returned
    /\ ret = ErrorOk
    /\ lastheader.count > 1
    /\ lastheader.len = BlockSize
    /\ ~lastheader.magic

----------------------------------------------------------------------------
(* C4 *)

\* C4: whenever a header read of the open archive returns fewer bytes than a
\* full block, unpack fails with UnexpectedEndOfFile.
C4_ShortHeaderReadFails ==
    (Returned /\ th.valid /\ lastheader.short) => ret = ErrorUnexpectedEndOfFile

----------------------------------------------------------------------------
(* C5 *)

\* k more records, when the rest r of the archive is valid
Plus(k, r) == IF r < 0 THEN r ELSE k + r

\* the regular-file records of the blocks b from block i on, when these are
\* records of regular files and directories, each one optionally preceded by
\* a long-name record, then zero blocks up to the end; -1 otherwise.  named
\* tells that a long-name record precedes block i, flags are the typeflags of
\* a regular file.
RECURSIVE RegularFiles(_, _, _, _)
RegularFiles(b, i, named, flags) ==
    IF i > Len(b) THEN 0 - 1
    ELSE IF ~b[i].magic
    THEN IF ~named /\ \A j \in i..Len(b) : b[j] = ZeroBlock THEN 0 ELSE 0 - 1
    ELSE LET n == BlocksFor(DeclaredSize(b[i])) IN
         CASE b[i].typeflag = "L" ->
                  IF /\ ~named
                     /\ n > 0
                     /\ i + n <= Len(b)
                     /\ \A j \in (i + 1)..(i + n) : ~b[j].magic /\ b[j].name # <<>>
                  THEN RegularFiles(b, i + 1 + n, TRUE, flags)
                  ELSE 0 - 1
           [] b[i].typeflag = "5" -> Plus(0, RegularFiles(b, i + 1, FALSE, flags))
           [] b[i].typeflag \in flags ->
                  IF i + n <= Len(b)
                  THEN Plus(1, RegularFiles(b, i + 1 + n, FALSE, flags))
                  ELSE 0 - 1
           [] OTHER -> 0 - 1

\* a valid archive of at least one record, read whole from a working storage
ValidArchiveExtracted(flags) ==
    /\ Returned
    /\ Entered
    /\ th.valid
    /\ failedAt = NoFailure
    /\ tar.tail = BlockSize
    /\ Len(tar.blocks) > 0
    /\ tar.blocks[1].magic
    /\ RegularFiles(tar.blocks, 1, FALSE, flags) >= 0

CountsRegularFiles(flags) ==
    ValidArchiveExtracted(flags) =>
        /\ ret = ErrorOk
        /\ numFiles = RegularFiles(tar.blocks, 1, FALSE, flags)

\* C5: for every valid archive made only of regular-file and directory
\* records, optionally preceded by long-name records, unpack succeeds and
\* numFiles() is the number of regular-file records of the archive.
C5_CountsRegularFiles == CountsRegularFiles(RegularFileFlags)

\* C5 for the archives whose files all carry typeflag '0'
C5_CountsTypeZeroFiles == CountsRegularFiles(SwitchFileFlags)

\* a valid archive with a long name, a directory or payload, extracted
C5_TypeZeroReached ==
    /\ ValidArchiveExtracted(SwitchFileFlags)
    /\ numFiles > 0
    /\ Len(trace) > 2

----------------------------------------------------------------------------
(* C6 *)

\* C6: when unpack has returned, on every exit path, a nonzero error code
\* implies that numFiles() is zero.
C6_NoCountWithFailure ==
    (Returned /\ errorCode # ErrorOk) => numFiles = 0

\* a call that had closed a file before a later write failed
C6_Witness ==
    /\ Returned
    /\ errorCode = ErrorWritingToDisk
    /\ \E i \in 1..(Len(trace) - 1) : trace[i].op = "open" /\ Done(i)

----------------------------------------------------------------------------
(* C7 *)

\* C7: once a payload write returned another count than the one asked for,
\* no block is read any more, the error code is and stays WritingToDisk, and
\* unpack returns it with numFiles() zero.
C7_WriteFailureAborts ==
    failedAt # NoFailure =>
        /\ reads = failedAt
        /\ pc \in {"close", "done"}
        /\ errorCode = ErrorWritingToDisk
        /\ (Returned => ret = ErrorWritingToDisk /\ numFiles = 0)

\* a call that returned after a write failed with payload and blocks left
C7_Witness ==
    /\ Returned
    /\ failedAt # NoFailure
    /\ size > 0
    /\ th.pos <= Len(tar.blocks)

----------------------------------------------------------------------------
(* C8 *)

\* the payload of the record of entry i is in the archive, and was written
PayloadCopied(i) ==
    /\ Done(i)
    /\ failedAt = NoFailure
    /\ trace[i].hdr + BlocksFor(DeclaredSize(HeaderOf(i))) <= Len(tar.blocks)
    /\ tar.tail = BlockSize

\* entry i is a file of s bytes, copied from the blocks that hold s bytes
CopiedExactly(i, s) ==
    /\ trace[i].op = "open"
    /\ trace[i].bytes = s
    /\ trace[i].chunks = BlocksFor(s)
    /\ trace[i].next = trace[i].hdr + 1 + BlocksFor(s)

PayloadExact(flags) ==
    \A i \in 2..Len(trace) :
        (HeaderOf(i).typeflag \in flags /\ PayloadCopied(i))
            => CopiedExactly(i, DeclaredSize(HeaderOf(i)))

\* C8: for a regular-file record of declared size s, the extractor reads the
\* ceil(s/512) blocks after the header, writes s bytes in all to the output
\* file, and reads the next record's header from the block after them.
C8_PayloadExact == PayloadExact(RegularFileFlags)

\* C8 for the records that carry typeflag '0'
C8_TypeZeroPayloadExact == PayloadExact(SwitchFileFlags)

\* a file of 513 bytes was copied from two blocks, the second write 1 byte
C8_TypeZeroReached ==
    \E i \in 2..Len(trace) :
        /\ HeaderOf(i).typeflag \in SwitchFileFlags
        /\ PayloadCopied(i)
        /\ trace[i].bytes = BlockSize + 1

----------------------------------------------------------------------------
(* C9 *)

\* entry i is a long-name record with a name, and entry i + 1 the record of a
\* regular file
LongNamedFile(i, flags) ==
    /\ i + 1 <= Len(trace)
    /\ trace[i].op = "name"
    /\ trace[i].path # <<>>
    /\ HeaderOf(i + 1).typeflag \in flags

LongNameApplied(flags) ==
    \A i \in 2..Len(trace) :
        /\ LongNamedFile(i, flags) =>
               /\ trace[i + 1].op = "open"
               /\ trace[i + 1].path = fnParse(destination, trace[i].path)
        /\ (trace[i].op = "name" /\ i = Len(trace) /\ Returned) =>
               \A j \in 2..Len(trace) :
                   trace[j].op \in {"open", "mkdir"} =>
                       j < i /\ HeaderOf(j).typeflag \in flags \cup {"5"}

\* C9: a long-name record followed by a regular-file record makes the output
\* file be created at the join of the destination and the long name; a
\* long-name record that nothing follows creates no file and no directory.
C9_LongNameApplied == LongNameApplied(RegularFileFlags)

\* C9 for the file records that carry typeflag '0'
C9_TypeZeroLongNameApplied == LongNameApplied(SwitchFileFlags)

\* a file was opened under the long name of the record before it
C9_TypeZeroReached ==
    \E i \in 2..Len(trace) :
        /\ LongNamedFile(i, SwitchFileFlags)
        /\ trace[i + 1].path = destination \o <<Slash>> \o LongName

----------------------------------------------------------------------------
(* C10 *)

\* C10: a record with the magic whose typeflag is NUL is handled like
\* typeflag '0': a file is opened at the resolved name, the declared bytes
\* are written to it, and the count grows by one.
C10_NulIsRegularFile ==
    \A i \in 2..Len(trace) :
        (HeaderOf(i).typeflag = "NUL" /\ PayloadCopied(i)) =>
            /\ CopiedExactly(i, DeclaredSize(HeaderOf(i)))
            /\ trace[i].path = fnParse(destination, HeaderOf(i).name)
                   \/ trace[i - 1].op = "name"
            /\ Returned /\ ret = ErrorOk =>
                   numFiles = Cardinality({j \in 2..Len(trace) :
                                  HeaderOf(j).typeflag \in RegularFileFlags})

----------------------------------------------------------------------------
(* C11 *)

\* C11: a call whose archive path does not exist returns
\* ErrorInputFileNotPresent, and a call whose destination does not exist after
\* the mkdir returns ErrorOutputFolderCreation, both without having opened or
\* read the archive; the archive is opened and the loop entered only when
\* both checks passed.
C11_PreconditionsBeforeOpen ==
    /\ call.opened => Entered
    /\ reads > 0 => call.opened
    /\ Returned =>
        /\ ~fsys.tarfile =>
               ret = ErrorInputFileNotPresent /\ ~call.opened /\ reads = 0
        /\ (fsys.tarfile /\ ~fsys.dest) =>
               /\ ret = ErrorOutputFolderCreation
               /\ ~call.opened /\ reads = 0
               /\ trace = <<Entry("mkdir", destination, 0)>>
        /\ Entered => call.opened /\ lastheader.count >= 1

\* a call returned because the destination was missing after the mkdir
C11_Witness ==
    /\ Returned /\ fsys.tarfile /\ ~fsys.dest
    /\ ret = ErrorOutputFolderCreation

----------------------------------------------------------------------------
(* fnParse alone: one entry name joined to a destination root, once with    *)
(* the root as it is and once with the root followed by a separator         *)

NameChars == {Slash, "a"}

\* the entry names: rh.name, or the name a long-name record gave
EntryNames == SeqsUpTo(NameChars, MaxNameLen)

\* the destination roots that do not end in a separator
BareRoots ==
    {r \in SeqsUpTo({Slash, "r"}, MaxRootLen) : ~EndsWith(r, Slash)}

JoinInit ==
    /\ unpackErrorCode = ErrorOk
    /\ numfiles = 0
    /\ pc = "join"
    /\ ret = NoReturn
    /\ destination \in BareRoots
    /\ fsys = [tarfile |-> TRUE, dest |-> TRUE]
    /\ tar = NoArchive
    /\ th = ClosedHandle
    /\ ofOpen = FALSE
    /\ eof = FALSE
    /\ firstrecord = TRUE
    /\ filename \in EntryNames
    /\ size = 0
    /\ trace = <<>>
    /\ reads = 0
    /\ lastheader = NoHeader
    /\ failedAt = NoFailure
    /\ call = NoCall

\* lines 167 and 187: the path of the entry under the root, and under the
\* root followed by a separator
JoinApply ==
    /\ pc = "join"
    /\ pc' = "joined"
    /\ trace' = <<Entry("open", fnParse(destination, filename), 0),
                  Entry("open", fnParse(destination \o <<Slash>>, filename), 0)>>
    /\ UNCHANGED <<unpackErrorCode, numfiles, ret, destination, fsys, tar, th,
                   ofOpen, eof, firstrecord, filename, size, reads, lastheader,
                   failedAt, call>>

JoinNext == JoinApply

JoinSpec == JoinInit /\ [][JoinNext]_vars

\* path p holds root r, one separator and then name n, and no second
\* separator follows the first
JoinedOnce(p, r, n) ==
    /\ p = r \o <<Slash>> \o n
    /\ Len(n) > 0 => p[Len(r) + 2] # Slash

\* C12: for every entry name, the path built under a root R that does not
\* end in a separator and the path built under R followed by a separator are
\* the same path, and that path holds exactly one separator at the join:
\* none is missing and none is doubled.
C12_ExactlyOneSeparator ==
    pc = "joined" =>
        /\ trace[1].path = trace[2].path
        /\ JoinedOnce(trace[1].path, destination, filename)
        /\ JoinedOnce(trace[2].path, destination, filename)

\* C12 for the entry names that do not begin with a separator
C12_RelativeNameJoinedOnce ==
    (pc = "joined" /\ ~(Len(filename) > 0 /\ filename[1] = Slash)) =>
        /\ trace[1].path = trace[2].path
        /\ JoinedOnce(trace[1].path, destination, filename)

\* a name that does not begin with a separator was joined to a root
C12_RelativeNameReached ==
    pc = "joined" /\ Len(filename) > 1 /\ filename[1] # Slash

----------------------------------------------------------------------------
(* C13 *)

\* the error code that the archive and the storage of this call decide
CallOutcome ==
    IF ~fsys.tarfile THEN ErrorInputFileNotPresent
    ELSE IF ~fsys.dest THEN ErrorOutputFolderCreation
    ELSE IF failedAt # NoFailure THEN ErrorWritingToDisk
    ELSE IF lastheader.len < 0 THEN ErrorUnexpectedEndOfFile
    ELSE IF lastheader.count = 1 THEN ErrorUnexpectedRecordInFile
    ELSE ErrorOk

\* the files this call opened
FilesOpened == {i \in 2..Len(trace) : trace[i].op = "open"}

\* C13: after any sequence of calls, the value returned, errorCode() and
\* numFiles() are decided by the archive and the storage behaviour of the
\* most recent call alone: nothing of an earlier call shows in them.
C13_LastCallDecides ==
    Returned =>
        /\ ret = CallOutcome
        /\ errorCode = CallOutcome
        /\ numFiles = IF CallOutcome = ErrorOk THEN Cardinality(FilesOpened) ELSE 0

\* a call that began with the error code of an earlier call returned zero
\* with a file written
C13_Witness == Returned /\ call.stale /\ ret = ErrorOk /\ numFiles > 0

----------------------------------------------------------------------------
(* C14 *)

\* the typeflags the extractor is to recognise: long name, directory, file
RecognisedFlags == {"L", "5"} \cup RegularFileFlags

\* entry i skipped s bytes of payload: the blocks that hold them were read,
\* nothing was written, and the next header is the block after them
SkippedExactly(i, s) ==
    /\ trace[i].op = "skip"
    /\ trace[i].bytes = 0
    /\ trace[i].chunks = BlocksFor(s)
    /\ trace[i].next = trace[i].hdr + 1 + BlocksFor(s)

\* C14: for a record with the magic and a typeflag that is not recognised,
\* whose size field holds the octal byte count s, the extractor reads the
\* ceil(s/512) blocks of its payload and no more, writes nothing, leaves the
\* count of files to the file records alone and raises no error; the next
\* header is read from the block after the payload.
C14_UnknownPayloadSkipped ==
    /\ \A i \in 2..Len(trace) :
           (HeaderOf(i).typeflag \notin RecognisedFlags /\ PayloadCopied(i))
               => SkippedExactly(i, DeclaredSize(HeaderOf(i)))
    /\ (Returned /\ ret = ErrorOk) => numFiles = Cardinality(FilesOpened)

\* what the code does: the blocks read for the payload are those of the size
\* field read as a decimal number
C14_SkipsDecimalReading ==
    \A i \in 2..Len(trace) :
        (Done(i) /\ HeaderOf(i).typeflag \notin RecognisedFlags) =>
            /\ trace[i].op = "skip"
            /\ trace[i].bytes = 0
            /\ trace[i].chunks = BlocksFor(AtoI(HeaderOf(i).size))

----------------------------------------------------------------------------
(* C15 *)

\* the output files that were opened and not closed since
OpenOutputs == {i \in 2..Len(trace) : trace[i].op = "open" /\ trace[i].next = 0}

\* C15: when unpack has returned, on every exit path, the archive handle is
\* closed if it was opened and no output file of the call is open; at every
\* moment of a call at most one output file is open.
C15_HandlesClosed ==
    /\ Cardinality(OpenOutputs) = (IF ofOpen THEN 1 ELSE 0)
    /\ th.open => call.opened
    /\ Returned => ~th.open /\ ~ofOpen /\ OpenOutputs = {}

\* a call returned after a write to an open output file had failed
C15_Witness ==
    /\ Returned /\ call.opened /\ th.valid
    /\ ret = ErrorWritingToDisk
    /\ \E i \in 2..Len(trace) : trace[i].op = "open" /\ trace[i].chunks > 0

----------------------------------------------------------------------------
(* C16 *)

\* a call is under way
InCall == pc \in {"header", "longname", "payload", "skip", "close"}

\* the blocks of the archive the cursor has not passed
BlocksLeft == IF th.valid THEN Len(tar.blocks) + 1 - th.pos ELSE 0

\* the header reads a call may still make, and its return
HeadersLeft ==
    CASE pc = "done" -> 0
      [] pc = "close" -> 1
      [] OTHER -> 2 + BlocksLeft

\* the payload reads the record under way may still make
ChunksLeft ==
    IF pc \in {"longname", "payload", "skip"} THEN BlocksFor(size) ELSE 0

\* C16: unpack terminates on every finite archive, whatever its blocks, its
\* size fields and the results of the writes: a call under way can always
\* take a step, and every step brings it closer to its return, either by a
\* header read or the end of the loop, or by one chunk of the payload of the
\* record under way.
C16_Terminates ==
    /\ [](InCall => ENABLED DecodeStep)
    /\ [](HeadersLeft >= 0 /\ ChunksLeft >= 0)
    /\ [][InCall =>
            \/ HeadersLeft' < HeadersLeft
            \/ HeadersLeft' = HeadersLeft /\ ChunksLeft' < ChunksLeft]_vars

\* C16 as a property of the fair behaviours: a call under way returns
C16_EventuallyReturns == InCall ~> Returned

\* a call returned after it had read past the end of an archive that declared
\* more payload than it held
C16_Witness ==
    /\ Returned /\ th.valid
    /\ reads > Len(tar.blocks) + 1

----------------------------------------------------------------------------
(* C17 *)

\* the text of block k of the archive read as a chunk of a long name; nothing
\* past the end of the archive
NameChunk(k) ==
    IF k > Len(tar.blocks) THEN <<>>
    ELSE ChunkText(tar.blocks[k], IF k = Len(tar.blocks) THEN tar.tail ELSE BlockSize)

\* the text of the n blocks from block k on
RECURSIVE NameText(_, _)
NameText(k, n) == IF n = 0 THEN <<>> ELSE NameChunk(k) \o NameText(k + 1, n - 1)

\* the long name pending when the record of entry i was dispatched: that of
\* the record just before it, if that was a long-name record
PendingName(i) ==
    IF i > 2 /\ trace[i - 1].op = "name" THEN trace[i - 1].path ELSE <<>>

\* the long name pending now
PendingNow ==
    IF Len(trace) >= 2 /\ trace[Len(trace)].op = "name"
    THEN trace[Len(trace)].path ELSE <<>>

\* C17: the pending long name is empty when a call starts; the name a
\* long-name record leaves is the text of its own payload and nothing of a
\* name pending before it; a file or directory record takes the name pending
\* from the record just before it, else the name of its own header, and
\* leaves none pending, so that a long name goes to one record at most.
C17_PendingNameLifecycle ==
    /\ (pc = "header" /\ Len(trace) = 1) => filename = <<>>
    /\ pc = "header" => filename = PendingNow
    /\ \A i \in 2..Len(trace) :
        /\ trace[i].op = "name" =>
               trace[i].path = NameText(trace[i].hdr + 1, trace[i].chunks)
        /\ trace[i].op \in {"open", "mkdir"} =>
               trace[i].path =
                   fnParse(destination,
                           IF PendingName(i) # <<>> THEN PendingName(i)
                           ELSE HeaderOf(i).name)

\* a file took the long name of the record before it and the file after it
\* the name of its own header
C17_Witness ==
    \E i \in 2..Len(trace) :
        /\ i + 2 <= Len(trace)
        /\ trace[i].op = "name" /\ trace[i].path = LongName
        /\ trace[i + 1].op = "open"
        /\ trace[i + 1].path = fnParse(destination, LongName)
        /\ trace[i + 2].op = "open"
        /\ trace[i + 2].path = fnParse(destination, ShortName)

\* of two long-name records in a row the second was read to its end
C17_SecondNameReached ==
    \E i \in 2..Len(trace) :
        /\ i + 1 <= Len(trace)
        /\ trace[i].op = "name" /\ trace[i].path # <<>>
        /\ trace[i + 1].op = "name" /\ Done(i + 1) /\ trace[i + 1].path # <<>>

----------------------------------------------------------------------------
(* C18 *)

\* entry i is a long-name record with a name, entry i + 1 a record of a type
\* that is not recognised, entry i + 2 a file or a directory
NameThenUnknown(i) ==
    /\ i + 2 <= Len(trace)
    /\ trace[i].op = "name"
    /\ trace[i].path # <<>>
    /\ HeaderOf(i + 1).typeflag \notin RecognisedFlags
    /\ trace[i + 2].op \in {"open", "mkdir"}

\* C18: a record of a type that is not recognised discards the pending long
\* name: of a long-name record, such a record and a file or directory record
\* in this order, the file or directory is created under the name of its own
\* header, and no name is pending once the unrecognised record is done.
C18_UnknownDiscardsName ==
    /\ \A i \in 2..Len(trace) :
           NameThenUnknown(i) =>
               trace[i + 2].path = fnParse(destination, HeaderOf(i + 2).name)
    /\ (pc = "header" /\ Len(trace) >= 2 /\ trace[Len(trace)].op = "skip")
           => filename = <<>>

\* a file was created under its header's name after a long name and a record
\* of another type
C18_Witness ==
    \E i \in 2..Len(trace) :
        /\ NameThenUnknown(i)
        /\ trace[i].path = LongName
        /\ trace[i + 2].op = "open"
        /\ trace[i + 2].path = fnParse(destination, ShortName)

----------------------------------------------------------------------------
(* C19 *)

\* C19: a call that returns ErrorInputFileNotPresent has left the storage as
\* it was: it made no directory, not even the destination root, opened no
\* file and wrote nothing; the error code and the count, which is zero, are
\* all it changed.
C19_MissingArchiveTouchesNothing ==
    (Returned /\ ret = ErrorInputFileNotPresent) =>
        /\ ~fsys.tarfile
        /\ trace = <<>>
        /\ ~call.opened /\ ~th.open /\ ~ofOpen
        /\ reads = 0
        /\ errorCode = ErrorInputFileNotPresent
        /\ numFiles = 0

\* a call on an object that held no error returned ErrorInputFileNotPresent
C19_Witness ==
    Returned /\ ret = ErrorInputFileNotPresent /\ ~call.stale

====
